---- MODULE Spec2Model ----
(***************************************************************************)
(* Residual functors of include/ceres-factors/Factors.h.                   *)
(*                                                                         *)
(* Numbers.  A double is modelled by an extended rational <<n, d>> in      *)
(* lowest terms: d > 0 is the finite value n/d, <<1,0>> is +Inf, <<-1,0>>  *)
(* is -Inf and <<0,0>> is NaN.  The arithmetic below follows IEEE-754 on    *)
(* these values (x/0, 0*Inf, Inf-Inf, NaN propagation); rounding and the   *)
(* sign of zero are not modelled.  Angles are measured in half-turns (one  *)
(* unit = pi radians), which keeps Log and Exp exact on the quaternions    *)
(* the inputs are drawn from.                                              *)
(***************************************************************************)
EXTENDS Integers, Sequences, FiniteSets, TLC

----------------------------------------------------------------------------
(* Scalars *)

Sgn(n) == IF n > 0 THEN 1 ELSE IF n < 0 THEN -1 ELSE 0

Abs(n) == IF n < 0 THEN -n ELSE n

RECURSIVE GCD(_, _)
GCD(a, b) == IF b = 0 THEN a ELSE GCD(b, a % b)

Norm(n, d) ==
  IF d = 0 THEN <<Sgn(n), 0>>
  ELSE LET g == GCD(Abs(n), Abs(d))
           s == Sgn(d)
       IN  <<(s * n) \div g, (s * d) \div g>>

N(i) == <<i, 1>>

NaN == <<0, 0>>

Inf == <<1, 0>>

IsNaN(a) == a = NaN

IsInf(a) == a[2] = 0 /\ a[1] # 0

IsFinite(a) == a[2] > 0

Neg(a) == <<-a[1], a[2]>>

Add(a, b) ==
  IF IsNaN(a) \/ IsNaN(b) THEN NaN
  ELSE IF IsInf(a) /\ IsInf(b) THEN (IF a = b THEN a ELSE NaN)
  ELSE Norm(a[1] * b[2] + b[1] * a[2], a[2] * b[2])

Sub(a, b) == Add(a, Neg(b))

Mul(a, b) == Norm(a[1] * b[1], a[2] * b[2])

Recip(a) == Norm(a[2], a[1])

Div(a, b) == Mul(a, Recip(b))

\* IEEE comparisons: every comparison with a NaN is false
Lt(a, b) ==
  /\ ~IsNaN(a) /\ ~IsNaN(b)
  /\ a # b
  /\ IF IsInf(a) THEN a[1] < 0
     ELSE IF IsInf(b) THEN b[1] > 0
     ELSE a[1] * b[2] < b[1] * a[2]

ISqrt(n) == CHOOSE r \in 0..n : r * r = n

\* std::sqrt, exact on the squares of rationals (the inputs keep to them)
Sqrt(a) ==
  IF IsNaN(a) THEN NaN
  ELSE IF a = Inf THEN Inf
  ELSE IF a[1] < 0 THEN NaN
  ELSE <<ISqrt(a[1]), ISqrt(a[2])>>

----------------------------------------------------------------------------
(* Eigen vectors and matrices: a vector is a sequence of scalars, a matrix *)
(* a sequence of rows                                                      *)

\* a sequence given as a function, evaluated once into a tuple
Tup(s) == SubSeq(s, 1, Len(s))

RECURSIVE Sum(_)
Sum(s) == IF s = <<>> THEN N(0) ELSE Add(Head(s), Sum(Tail(s)))

VAdd(u, v) == Tup([i \in 1..Len(u) |-> Add(u[i], v[i])])

VSub(u, v) == Tup([i \in 1..Len(u) |-> Sub(u[i], v[i])])

VNeg(u) == Tup([i \in 1..Len(u) |-> Neg(u[i])])

VScale(c, u) == Tup([i \in 1..Len(u) |-> Mul(c, u[i])])

VDivide(u, c) == Tup([i \in 1..Len(u) |-> Div(u[i], c)])

Dot(u, v) == Sum(Tup([i \in 1..Len(u) |-> Mul(u[i], v[i])]))

VNorm(u) == Sqrt(Dot(u, u))

Cross(u, v) ==
  << Sub(Mul(u[2], v[3]), Mul(u[3], v[2])),
     Sub(Mul(u[3], v[1]), Mul(u[1], v[3])),
     Sub(Mul(u[1], v[2]), Mul(u[2], v[1])) >>

Zero(n) == Tup([i \in 1..n |-> N(0)])

MatVec(M, v) == Tup([i \in 1..Len(M) |-> Dot(M[i], v)])

MScale(c, M) == Tup([i \in 1..Len(M) |-> VScale(c, M[i])])

Diag(d) ==
  Tup([i \in 1..Len(d) |-> Tup([j \in 1..Len(d) |-> IF i = j THEN d[i] ELSE N(0)])])

\* the sequence s without its k-th element
Drop(s, k) == SubSeq(s, 1, k - 1) \o SubSeq(s, k + 1, Len(s))

Minor(M, r, c) == Tup([i \in 1..(Len(M) - 1) |-> Drop(Drop(M, r)[i], c)])

\* determinant by expansion along the first row (finite entries)
RECURSIVE Det(_)
Det(M) ==
  IF Len(M) = 1 THEN M[1][1]
  ELSE Sum(Tup([j \in 1..Len(M) |->
              IF M[1][j] = N(0) THEN N(0)
              ELSE Mul(Mul(N(IF j % 2 = 1 THEN 1 ELSE -1), M[1][j]),
                       Det(Minor(M, 1, j)))]))

Cofactor(M, i, j) ==
  IF Len(M) = 1 THEN N(1)
  ELSE Mul(N(IF (i + j) % 2 = 0 THEN 1 ELSE -1), Det(Minor(M, i, j)))

\* MatrixBase::inverse(): cofactors scaled by invdet = 1 / det
Inverse(M) ==
  LET invdet == Div(N(1), Det(M))
  IN  Tup([i \in 1..Len(M) |->
             Tup([j \in 1..Len(M) |-> Mul(Cofactor(M, j, i), invdet)])])

----------------------------------------------------------------------------
(* Manifold value abstraction (SO3.h, SE3.h): consumed by the factors, not *)
(* part of this repository.  An orientation is the coefficient vector      *)
(* (w, x, y, z) of a unit quaternion, a pose is (t, q) with t a vector of  *)
(* three and q an orientation.  The operators below are the interface of   *)
(* spec section 6 (construct from buffer, compose, invert, tangent-space   *)
(* difference), exact on the quaternions 1, i, j, k and their negatives    *)
(* and on poses that rotate about and translate along one axis.            *)

\* atan2(y, x) in half-turns, for y >= 0 on the axes and the diagonals
Atan2(y, x) ==
  CHOOSE a \in {N(0), <<1, 4>>, <<1, 2>>, <<3, 4>>, N(1)} :
    \/ a = N(0)   /\ y = N(0) /\ Lt(N(0), x)
    \/ a = <<1, 4>> /\ y = x /\ Lt(N(0), x)
    \/ a = <<1, 2>> /\ x = N(0) /\ Lt(N(0), y)
    \/ a = <<3, 4>> /\ y = Neg(x) /\ Lt(N(0), y)
    \/ a = N(1)   /\ y = N(0) /\ Lt(x, N(0))

\* cos and sin of k quarter-turns, k a whole number
QuarterTurns(th) == CHOOSE k \in 0..3 : th[2] = 1 /\ th[1] % 4 = k

Cos4(th) == N(<<1, 0, -1, 0>>[QuarterTurns(th) + 1])

Sin4(th) == N(<<0, 1, 0, -1>>[QuarterTurns(th) + 1])

QVec(q) == SubSeq(q, 2, 4)

SO3Identity == <<N(1), N(0), N(0), N(0)>>

SO3Inverse(q) == <<q[1], Neg(q[2]), Neg(q[3]), Neg(q[4])>>

SO3Otimes(a, b) ==
  << Sub(Sub(Sub(Mul(a[1], b[1]), Mul(a[2], b[2])), Mul(a[3], b[3])), Mul(a[4], b[4])),
     Sub(Add(Add(Mul(a[1], b[2]), Mul(a[2], b[1])), Mul(a[3], b[4])), Mul(a[4], b[3])),
     Add(Add(Sub(Mul(a[1], b[3]), Mul(a[2], b[4])), Mul(a[3], b[1])), Mul(a[4], b[2])),
     Add(Sub(Add(Mul(a[1], b[4]), Mul(a[2], b[3])), Mul(a[3], b[2])), Mul(a[4], b[1])) >>

\* the rotation q applied to the vector v
SO3Rotate(q, v) ==
  LET t == VScale(N(2), Cross(QVec(q), v))
  IN  VAdd(VAdd(v, VScale(q[1], t)), Cross(QVec(q), t))

SO3Log(q) ==
  LET v == QVec(q)
      n == VNorm(v)
  IN  IF n = N(0) THEN Zero(3)
      ELSE VDivide(VScale(Mul(N(2), Atan2(n, q[1])), v), n)

SO3Exp(v) ==
  LET th == VNorm(v)
  IN  IF th = N(0) THEN SO3Identity
      ELSE <<Cos4(th)>> \o VScale(Sin4(th), VDivide(v, th))

\* a + v
SO3Plus(q, v) == SO3Otimes(q, SO3Exp(v))

\* a - b, the tangent vector that takes b to a
SO3Minus(a, b) == SO3Log(SO3Otimes(SO3Inverse(b), a))

SE3T(X) == SubSeq(X, 1, 3)

SE3Q(X) == SubSeq(X, 4, 7)

SE3Inverse(X) ==
  LET qi == SO3Inverse(SE3Q(X))
  IN  VNeg(SO3Rotate(qi, SE3T(X))) \o qi

SE3Otimes(A, B) ==
  VAdd(SE3T(A), SO3Rotate(SE3Q(A), SE3T(B))) \o SO3Otimes(SE3Q(A), SE3Q(B))

\* the pose X applied to the point p
SE3Transform(X, p) == VAdd(SO3Rotate(SE3Q(X), p), SE3T(X))

\* (translational part, rotational part); the translational part is t when
\* t is parallel to the rotation axis or there is no rotation
SE3Log(X) ==
  LET w == SO3Log(SE3Q(X))
  IN  (CHOOSE u \in {SE3T(X)} : Cross(w, u) = Zero(3)) \o w

SE3Minus(A, B) == SE3Log(SE3Otimes(SE3Inverse(B), A))

----------------------------------------------------------------------------
(* The factors.  A constructed factor is a record: its kind, the           *)
(* measurement members in declaration order, and the stored information    *)
(* (a matrix; 1 x 1 for the scalar factors, empty for the reprojection     *)
(* factor, which has none).                                                *)

Kinds ==
  {"SO3Factor", "RelSE3Factor", "RangeFactor", "AltFactor", "TimeSyncAttFactor",
   "SO3OffsetFactor", "SE3OffsetFactor", "SE3ReprojectionFactor"}

NoFactor == [kind |-> "none", meas |-> <<>>, info |-> <<>>]

SO3FactorCtor(q_vec, Q) ==
  [kind |-> "SO3Factor", meas |-> <<q_vec>>, info |-> Inverse(Q)]

RelSE3FactorCtor(X_vec, Q) ==
  [kind |-> "RelSE3Factor", meas |-> <<X_vec>>, info |-> Inverse(Q)]

RangeFactorCtor(rij, qij) ==
  [kind |-> "RangeFactor", meas |-> <<<<rij>>>>, info |-> <<<<Div(N(1), qij)>>>>]

AltFactorCtor(hi, qi) ==
  [kind |-> "AltFactor", meas |-> <<<<hi>>>>, info |-> <<<<Div(N(1), qi)>>>>]

TimeSyncAttFactorCtor(q_ref_vec, q_vec, w_vec, Q) ==
  [kind |-> "TimeSyncAttFactor", meas |-> <<q_ref_vec, q_vec, w_vec>>, info |-> Inverse(Q)]

SO3OffsetFactorCtor(q_ref_vec, q_vec, Q) ==
  [kind |-> "SO3OffsetFactor", meas |-> <<q_ref_vec, q_vec>>, info |-> Inverse(Q)]

SE3OffsetFactorCtor(T_ref_vec, T_vec, Q) ==
  [kind |-> "SE3OffsetFactor", meas |-> <<T_ref_vec, T_vec>>, info |-> Inverse(Q)]

\* meas = (img_coords, world_coords, (fx, fy, cx, cy))
SE3ReprojectionFactorCtor(fx, fy, cx, cy, img_coords, world_coords) ==
  [kind |-> "SE3ReprojectionFactor",
   meas |-> <<img_coords, world_coords, <<fx, fy, cx, cy>>>>, info |-> <<>>]

\* a Create that declares the block size of SO3OffsetFactor as its residual
\* dimension
ResidualDimWrong(kind) ==
  CASE kind = "SO3Factor" -> 3
    [] kind = "RelSE3Factor" -> 6
    [] kind = "RangeFactor" -> 1
    [] kind = "AltFactor" -> 1
    [] kind = "TimeSyncAttFactor" -> 3
    [] kind = "SO3OffsetFactor" -> 4
    [] kind = "SE3OffsetFactor" -> 6
    [] kind = "SE3ReprojectionFactor" -> 2

\* AutoDiffCostFunction<Factor, residuals, block sizes...> of each Create
ResidualDim(kind) ==
  CASE kind = "SO3Factor" -> 3
    [] kind = "RelSE3Factor" -> 6
    [] kind = "RangeFactor" -> 1
    [] kind = "AltFactor" -> 1
    [] kind = "TimeSyncAttFactor" -> 3
    [] kind = "SO3OffsetFactor" -> 3
    [] kind = "SE3OffsetFactor" -> 6
    [] kind = "SE3ReprojectionFactor" -> 2

\* a Create that declares the camera pose of SE3ReprojectionFactor as an
\* orientation block
ParamSizesWrong(kind) ==
  CASE kind = "SO3Factor" -> <<4>>
    [] kind = "RelSE3Factor" -> <<7, 7>>
    [] kind = "RangeFactor" -> <<7, 7>>
    [] kind = "AltFactor" -> <<7>>
    [] kind = "TimeSyncAttFactor" -> <<1>>
    [] kind = "SO3OffsetFactor" -> <<4>>
    [] kind = "SE3OffsetFactor" -> <<7>>
    [] kind = "SE3ReprojectionFactor" -> <<4>>

ParamSizes(kind) ==
  CASE kind = "SO3Factor" -> <<4>>
    [] kind = "RelSE3Factor" -> <<7, 7>>
    [] kind = "RangeFactor" -> <<7, 7>>
    [] kind = "AltFactor" -> <<7>>
    [] kind = "TimeSyncAttFactor" -> <<1>>
    [] kind = "SO3OffsetFactor" -> <<4>>
    [] kind = "SE3OffsetFactor" -> <<7>>
    [] kind = "SE3ReprojectionFactor" -> <<7>>

\* the coefficients (counted from 0) that operator() takes from each of its
\* parameter pointers: SO3<T>(p) maps 4, SE3<T>(p) maps 7, Matrix<T,3,1>(p)
\* copies 3, *(p + 2) and *p take one
ParamReads(kind) ==
  CASE kind = "SO3Factor" -> <<0..3>>
    [] kind = "RelSE3Factor" -> <<0..6, 0..6>>
    [] kind = "RangeFactor" -> <<0..2, 0..2>>
    [] kind = "AltFactor" -> <<{2}>>
    [] kind = "TimeSyncAttFactor" -> <<{0}>>
    [] kind = "SO3OffsetFactor" -> <<0..3>>
    [] kind = "SE3OffsetFactor" -> <<0..6>>
    [] kind = "SE3ReprojectionFactor" -> <<0..6>>

\* a coefficient operator() does not take; no arithmetic is defined on it
Untouched == <<"untouched">>

\* the parameter blocks as operator() sees them through its pointers
Fetch(kind, blocks) ==
  Tup([k \in 1..Len(blocks) |->
         Tup([i \in 1..Len(blocks[k]) |->
                IF (i - 1) \in ParamReads(kind)[k] THEN blocks[k][i] ELSE Untouched])])

(* The error each operator() forms before it is weighted.  p is the tuple  *)
(* of parameter blocks in argument order.                                  *)

\* the operands of the difference exchanged: q_ - q_hat
SO3FactorErrorSwapped(f, p) == SO3Minus(f.meas[1], SubSeq(p[1], 1, 4))

\* q_hat - q_
SO3FactorError(f, p) == SO3Minus(SubSeq(p[1], 1, 4), f.meas[1])

\* Xi_hat.inverse() * Xj_hat - Xij_
RelSE3FactorError(f, p) ==
  SE3Minus(SE3Otimes(SE3Inverse(SubSeq(p[1], 1, 7)), SubSeq(p[2], 1, 7)), f.meas[1])

\* squaredNorm() in place of norm()
RangeFactorErrorSquaredNorm(f, p) ==
  LET d == VSub(SubSeq(p[2], 1, 3), SubSeq(p[1], 1, 3))
  IN  <<Sub(f.meas[1][1], Dot(d, d))>>

\* rij_ - (tj_hat - ti_hat).norm()
RangeFactorError(f, p) ==
  <<Sub(f.meas[1][1], VNorm(VSub(SubSeq(p[2], 1, 3), SubSeq(p[1], 1, 3))))>>

\* hi_ - *(_Xi_hat + 2)
AltFactorError(f, p) == <<Sub(f.meas[1][1], p[1][3])>>

\* q_ref_ - (q_ + *_dt_hat * w_)
TimeSyncAttFactorError(f, p) ==
  SO3Minus(f.meas[1], SO3Plus(f.meas[2], VScale(p[1][1], f.meas[3])))

\* the offset left out of the prediction: q_ref_ - q_
SO3OffsetFactorErrorNoOffset(f, p) == SO3Minus(f.meas[1], f.meas[2])

\* q_ref_ - (q_ * q_off)
SO3OffsetFactorError(f, p) ==
  SO3Minus(f.meas[1], SO3Otimes(f.meas[2], SubSeq(p[1], 1, 4)))

\* T_ref_ - (T_ * T_off)
SE3OffsetFactorError(f, p) ==
  SE3Minus(f.meas[1], SE3Otimes(f.meas[2], SubSeq(p[1], 1, 7)))

\* proj = (fx x / z + cx, fy y / z + cy) of camera_coords = H.inverse() * world
Project(f, p) ==
  LET c == SE3Transform(SE3Inverse(SubSeq(p[1], 1, 7)), f.meas[2])
      K == f.meas[3]
  IN  << Add(Div(Mul(K[1], c[1]), c[3]), K[3]),
         Add(Div(Mul(K[2], c[2]), c[3]), K[4]) >>

\* _img_coords - proj
SE3ReprojectionFactorError(f, p) == VSub(f.meas[1], Project(f, p))

Error(f, p) ==
  CASE f.kind = "SO3Factor" -> SO3FactorError(f, p)
    [] f.kind = "RelSE3Factor" -> RelSE3FactorError(f, p)
    [] f.kind = "RangeFactor" -> RangeFactorError(f, p)
    [] f.kind = "AltFactor" -> AltFactorError(f, p)
    [] f.kind = "TimeSyncAttFactor" -> TimeSyncAttFactorError(f, p)
    [] f.kind = "SO3OffsetFactor" -> SO3OffsetFactorError(f, p)
    [] f.kind = "SE3OffsetFactor" -> SE3OffsetFactorError(f, p)
    [] f.kind = "SE3ReprojectionFactor" -> SE3ReprojectionFactorError(f, p)

\* the error stored without its weight
WeightUnweighted(f, e) == e

\* Q_inv_ * e, qij_inv_ * e; the reprojection error is not weighted
Weight(f, e) ==
  IF f.kind = "SE3ReprojectionFactor" THEN e ELSE MatVec(f.info, e)

\* what one call of operator(), run alone, leaves in the residual buffer
Residual(f, blocks) == Weight(f, Error(f, Fetch(f.kind, blocks)))

----------------------------------------------------------------------------
(* Inputs *)

NumThreads == 2

Threads == 1..NumThreads

\* the solver's parameter blocks
Blocks == {1, 2}

V3(a, b, c) == <<N(a), N(b), N(c)>>

qI == SO3Identity

qX == <<N(0), N(1), N(0), N(0)>>

qY == <<N(0), N(0), N(1), N(0)>>

qZ == <<N(0), N(0), N(0), N(1)>>

Pose(t, q) == t \o q

XI == Pose(V3(0, 0, 0), qI)

XZ == Pose(V3(0, 0, 1), qZ)

Half == <<1, 2>>

I3 == Diag(<<N(1), N(1), N(1)>>)

I6 == Diag(<<N(1), N(1), N(1), N(1), N(1), N(1)>>)

\* covariances: well-posed ones, and singular ones (rank 2, rank 5)
Cov3 ==
  { I3, MScale(Half, I3),
    <<V3(2, 1, 0), V3(1, 1, 0), V3(0, 0, 1)>>,
    <<V3(2, -1, -1), V3(-1, 2, -1), V3(-1, -1, 2)>> }

Cov6 ==
  { I6, MScale(Half, I6), Diag(<<N(0), N(1), N(1), N(1), N(1), N(1)>>) }

Variances == {N(1), N(2), N(0)}

\* constructor arguments: one measurement with every covariance, a second
\* measurement with a well-posed one
SO3FactorInputs == ({qI} \X Cov3) \cup {<<qZ, I3>>}

RelSE3FactorInputs == ({XZ} \X Cov6) \cup {<<XI, I6>>}

RangeFactorInputs == ({N(5)} \X Variances) \cup {<<N(6), N(1)>>, <<N(6), N(2)>>}

AltFactorInputs == ({N(10)} \X Variances) \cup {<<N(7), N(1)>>}

TimeSyncAttFactorInputs ==
  ({<<qX, qI, V3(1, 0, 0)>>} \X Cov3) \cup {<<<<qI, qI, V3(0, 0, 1)>>, I3>>}

SO3OffsetFactorInputs == ({<<qZ, qX>>} \X Cov3) \cup {<<<<qX, qX>>, I3>>}

SE3OffsetFactorInputs == ({<<XZ, XI>>} \X Cov6) \cup {<<<<XZ, XZ>>, I6>>}

SE3ReprojectionFactorInputs ==
  { <<N(2), N(3), N(4), N(5), <<N(4), N(5)>>, V3(0, 0, 2)>>,
    <<N(2), N(3), N(4), N(5), <<N(6), N(5)>>, V3(1, 0, 2)>> }

\* the values the solver gives parameter block b of a factor of this kind
BlockValues(kind, b) ==
  CASE kind = "SO3Factor" -> IF b = 1 THEN {qI, qX} ELSE {qZ}
    [] kind = "RelSE3Factor" -> {XI, XZ}
    [] kind = "RangeFactor" -> {Pose(V3(0, 0, 0), qI), Pose(V3(3, 4, 0), qX)}
    [] kind = "AltFactor" ->
         IF b = 1 THEN {Pose(V3(1, 2, 10), qI), Pose(V3(10, 7, 3), qX)}
         ELSE {Pose(V3(0, 0, 7), qZ)}
    [] kind = "TimeSyncAttFactor" -> IF b = 1 THEN {<<N(0)>>, <<N(1)>>} ELSE {<<N(2)>>}
    [] kind = "SO3OffsetFactor" -> IF b = 1 THEN {qX, qY} ELSE {qI}
    [] kind = "SE3OffsetFactor" -> IF b = 1 THEN {XZ, Pose(V3(0, 0, 2), qI)} ELSE {XI}
    [] kind = "SE3ReprojectionFactor" ->
         IF b = 1 THEN {XI, Pose(V3(0, 0, 2), qI)} ELSE {Pose(V3(0, 0, 4), qX)}

BlockStates(kind) == {m \in [Blocks -> UNION {BlockValues(kind, b) : b \in Blocks}] :
                        \A b \in Blocks : m[b] \in BlockValues(kind, b)}

\* the blocks a call is given, in argument order
ArgTuples(kind) ==
  IF Len(ParamSizes(kind)) = 1 THEN {<<b>> : b \in Blocks}
  ELSE {a \in Blocks \X Blocks : a[1] # a[2]}

----------------------------------------------------------------------------
(* State *)

VARIABLES
  factor,   \* the constructed factor, NoFactor before Create and after Destroy
  mem,      \* the solver's parameter blocks: block -> coefficients
  pc,       \* where each thread's call of operator() stands
  args,     \* the blocks each call was given
  tmp,      \* each call's temporary: the error before weighting
  rd,       \* the coefficients each call has taken, per argument
  res,      \* each caller's residual buffer, one slot longer than declared
  ret       \* what each call returned

vars == <<factor, mem, pc, args, tmp, rd, res, ret>>

\* a buffer slot no call has written
Unwritten == <<0, -1>>

Idle == \A t \in Threads : pc[t] = "idle"

Given(t) == Tup([k \in 1..Len(args[t]) |-> mem[args[t][k]]])

Init ==
  /\ factor = NoFactor
  /\ mem = [b \in Blocks |-> <<>>]
  /\ pc = [t \in Threads |-> "idle"]
  /\ args = [t \in Threads |-> <<>>]
  /\ tmp = [t \in Threads |-> <<>>]
  /\ rd = [t \in Threads |-> <<>>]
  /\ res = [t \in Threads |-> <<>>]
  /\ ret = [t \in Threads |-> "none"]

(* Create: the factor is constructed and handed to the solver, which       *)
(* registers it with parameter blocks of the declared sizes                *)

CreateSO3Factor ==
  /\ factor = NoFactor
  /\ \E in \in SO3FactorInputs : factor' = SO3FactorCtor(in[1], in[2])
  /\ mem' \in BlockStates("SO3Factor")
  /\ UNCHANGED <<pc, args, tmp, rd, res, ret>>

CreateRelSE3Factor ==
  /\ factor = NoFactor
  /\ \E in \in RelSE3FactorInputs : factor' = RelSE3FactorCtor(in[1], in[2])
  /\ mem' \in BlockStates("RelSE3Factor")
  /\ UNCHANGED <<pc, args, tmp, rd, res, ret>>

CreateRangeFactor ==
  /\ factor = NoFactor
  /\ \E in \in RangeFactorInputs : factor' = RangeFactorCtor(in[1], in[2])
  /\ mem' \in BlockStates("RangeFactor")
  /\ UNCHANGED <<pc, args, tmp, rd, res, ret>>

CreateAltFactor ==
  /\ factor = NoFactor
  /\ \E in \in AltFactorInputs : factor' = AltFactorCtor(in[1], in[2])
  /\ mem' \in BlockStates("AltFactor")
  /\ UNCHANGED <<pc, args, tmp, rd, res, ret>>

CreateTimeSyncAttFactor ==
  /\ factor = NoFactor
  /\ \E in \in TimeSyncAttFactorInputs :
       factor' = TimeSyncAttFactorCtor(in[1][1], in[1][2], in[1][3], in[2])
  /\ mem' \in BlockStates("TimeSyncAttFactor")
  /\ UNCHANGED <<pc, args, tmp, rd, res, ret>>

CreateSO3OffsetFactor ==
  /\ factor = NoFactor
  /\ \E in \in SO3OffsetFactorInputs :
       factor' = SO3OffsetFactorCtor(in[1][1], in[1][2], in[2])
  /\ mem' \in BlockStates("SO3OffsetFactor")
  /\ UNCHANGED <<pc, args, tmp, rd, res, ret>>

CreateSE3OffsetFactor ==
  /\ factor = NoFactor
  /\ \E in \in SE3OffsetFactorInputs :
       factor' = SE3OffsetFactorCtor(in[1][1], in[1][2], in[2])
  /\ mem' \in BlockStates("SE3OffsetFactor")
  /\ UNCHANGED <<pc, args, tmp, rd, res, ret>>

CreateSE3ReprojectionFactor ==
  /\ factor = NoFactor
  /\ \E in \in SE3ReprojectionFactorInputs :
       factor' = SE3ReprojectionFactorCtor(in[1], in[2], in[3], in[4], in[5], in[6])
  /\ mem' \in BlockStates("SE3ReprojectionFactor")
  /\ UNCHANGED <<pc, args, tmp, rd, res, ret>>

\* between iterations the solver moves a parameter block
SolverUpdate ==
  /\ factor # NoFactor
  /\ Idle
  /\ \E b \in Blocks : \E v \in BlockValues(factor.kind, b) :
       /\ v # mem[b]
       /\ mem' = [mem EXCEPT ![b] = v]
  /\ UNCHANGED <<factor, pc, args, tmp, rd, res, ret>>

\* the problem is torn down
Destroy ==
  /\ factor # NoFactor
  /\ Idle
  /\ factor' = NoFactor
  /\ mem' = [b \in Blocks |-> <<>>]
  /\ UNCHANGED <<pc, args, tmp, rd, res, ret>>

\* a worker thread calls operator() with parameter blocks and a buffer of
\* its own
Call(t) ==
  /\ factor # NoFactor
  /\ pc[t] = "idle"
  /\ \E a \in ArgTuples(factor.kind) : args' = [args EXCEPT ![t] = a]
  /\ res' = [res EXCEPT ![t] = Tup([i \in 1..(ResidualDim(factor.kind) + 1) |-> Unwritten])]
  /\ pc' = [pc EXCEPT ![t] = "entered"]
  /\ UNCHANGED <<factor, mem, tmp, rd, ret>>

\* operator() with its temporary in one place shared by every call (a
\* member or a static) instead of the call's own frame
EvaluateSharedTemp(t) ==
  /\ pc[t] = "entered"
  /\ rd' = [rd EXCEPT ![t] = ParamReads(factor.kind)]
  /\ tmp' = [u \in Threads |-> Error(factor, Fetch(factor.kind, Given(t)))]
  /\ pc' = [pc EXCEPT ![t] = "evaluated"]
  /\ UNCHANGED <<factor, mem, args, res, ret>>

\* operator() changing its first parameter through the mapped pointer
EvaluateInPlace(t) ==
  /\ pc[t] = "entered"
  /\ rd' = [rd EXCEPT ![t] = ParamReads(factor.kind)]
  /\ tmp' = [tmp EXCEPT ![t] = Error(factor, Fetch(factor.kind, Given(t)))]
  /\ mem' = [mem EXCEPT ![args[t][1]] = VNeg(@)]
  /\ pc' = [pc EXCEPT ![t] = "evaluated"]
  /\ UNCHANGED <<factor, args, res, ret>>

\* operator(): the parameters are mapped and the error is formed
Evaluate(t) ==
  /\ pc[t] = "entered"
  /\ rd' = [rd EXCEPT ![t] = ParamReads(factor.kind)]
  /\ tmp' = [tmp EXCEPT ![t] = Error(factor, Fetch(factor.kind, Given(t)))]
  /\ pc' = [pc EXCEPT ![t] = "evaluated"]
  /\ UNCHANGED <<factor, mem, args, res, ret>>

\* operator() reporting failure when a residual component is not finite
StoreValidated(t) ==
  /\ pc[t] = "evaluated"
  /\ LET r == Weight(factor, tmp[t])
     IN  /\ res' = [res EXCEPT ![t] =
                      Tup([i \in DOMAIN res[t] |-> IF i <= Len(r) THEN r[i] ELSE res[t][i]])]
         /\ ret' = [ret EXCEPT ![t] =
                      IF \A i \in 1..Len(r) : IsFinite(r[i]) THEN "true" ELSE "false"]
  /\ pc' = [pc EXCEPT ![t] = "returned"]
  /\ UNCHANGED <<factor, mem, args, tmp, rd>>

\* operator(): r = information * error; return true
Store(t) ==
  /\ pc[t] = "evaluated"
  /\ LET r == Weight(factor, tmp[t])
     IN  res' = [res EXCEPT ![t] =
                   Tup([i \in DOMAIN res[t] |-> IF i <= Len(r) THEN r[i] ELSE res[t][i]])]
  /\ ret' = [ret EXCEPT ![t] = "true"]
  /\ pc' = [pc EXCEPT ![t] = "returned"]
  /\ UNCHANGED <<factor, mem, args, tmp, rd>>

\* the caller takes the residual and its buffer back
Release(t) ==
  /\ pc[t] = "returned"
  /\ pc' = [pc EXCEPT ![t] = "idle"]
  /\ args' = [args EXCEPT ![t] = <<>>]
  /\ tmp' = [tmp EXCEPT ![t] = <<>>]
  /\ rd' = [rd EXCEPT ![t] = <<>>]
  /\ res' = [res EXCEPT ![t] = <<>>]
  /\ ret' = [ret EXCEPT ![t] = "none"]
  /\ UNCHANGED <<factor, mem>>

Next ==
  \/ CreateSO3Factor
  \/ CreateRelSE3Factor
  \/ CreateRangeFactor
  \/ CreateAltFactor
  \/ CreateTimeSyncAttFactor
  \/ CreateSO3OffsetFactor
  \/ CreateSE3OffsetFactor
  \/ CreateSE3ReprojectionFactor
  \/ SolverUpdate
  \/ Destroy
  \/ \E t \in Threads : Call(t)
  \/ \E t \in Threads : Evaluate(t)
  \/ \E t \in Threads : Store(t)
  \/ \E t \in Threads : Release(t)

Spec == Init /\ [][Next]_vars

----------------------------------------------------------------------------
(* Properties *)

Kind == factor.kind

Evaluated(t) == pc[t] \in {"evaluated", "returned"}

Returned(t) == pc[t] = "returned"

\* the declared part of a caller's buffer
Res(t) == SubSeq(res[t], 1, ResidualDim(Kind))

Written(t) == {i \in DOMAIN res[t] : res[t][i] # Unwritten}

InfoFinite(f) ==
  \A i \in 1..Len(f.info) : \A j \in 1..Len(f.info[i]) : IsFinite(f.info[i][j])

\* C1: construction with a singular covariance or a zero variance fails, so
\* no constructed factor holds an information value that is Inf or NaN.
\* The constructors do not check: this is violated.
C1_NoCorruptInformation == factor # NoFactor => InfoFinite(factor)

\* C2: whatever the other threads are doing, a call that has returned has
\* left in its own buffer the residual the same call gives when run alone
\* on the same parameter blocks.
C2_ConcurrentAsAlone ==
  \A t \in Threads : Returned(t) => Res(t) = Residual(factor, Given(t))

C2_Witness ==
  \E t, u \in Threads :
    /\ t # u /\ Returned(t) /\ pc[u] = "evaluated"
    /\ Kind = "RelSE3Factor"
    /\ args[t] # args[u]
    /\ tmp[t] # tmp[u]

Declared(k) == 0..(ParamSizes(Kind)[k] - 1)

\* C3 as stated: for every kind the coefficients operator() reads from each
\* block are exactly 0..size-1 of the size Create declares.  RangeFactor and
\* AltFactor read less: this is violated.
C3_ReadsExactlyDeclared ==
  \A t \in Threads : Evaluated(t) =>
    /\ Len(rd[t]) = Len(ParamSizes(Kind))
    /\ \A k \in 1..Len(rd[t]) : rd[t][k] = Declared(k)

\* C3 amended: no kind reads a coefficient at or beyond the declared size;
\* the kinds that map an orientation, a pose or the scalar read exactly
\* 0..size-1; RangeFactor reads 0..2 of each pose block and AltFactor reads
\* coefficient 2 alone.
C3_ReadsWithinDeclared ==
  \A t \in Threads : Evaluated(t) =>
    /\ Len(rd[t]) = Len(ParamSizes(Kind))
    /\ \A k \in 1..Len(rd[t]) :
         /\ rd[t][k] \subseteq Declared(k)
         /\ Kind \notin {"RangeFactor", "AltFactor"} => rd[t][k] = Declared(k)
         /\ Kind = "RangeFactor" => rd[t][k] = 0..2 /\ ParamSizes(Kind)[k] = 7
         /\ Kind = "AltFactor" => rd[t][k] = {2} /\ ParamSizes(Kind)[k] = 7

C3_Witness ==
  \E t, u \in Threads :
    /\ Evaluated(t) /\ Evaluated(u)
    /\ Kind = "RangeFactor"
    /\ args[t] = <<1, 2>> /\ args[u] = <<2, 1>>

ClaimedDim(kind) ==
  CASE kind \in {"SO3Factor", "TimeSyncAttFactor", "SO3OffsetFactor"} -> 3
    [] kind \in {"RelSE3Factor", "SE3OffsetFactor"} -> 6
    [] kind \in {"RangeFactor", "AltFactor"} -> 1
    [] kind = "SE3ReprojectionFactor" -> 2

\* C4: a call that has returned has written the components 0..dim-1 of the
\* residual and nothing at or beyond dim, dim being the residual dimension
\* Create declares: 3, 6, 1 or 2 by kind.
C4_WritesDeclaredDimension ==
  \A t \in Threads : Returned(t) =>
    /\ ResidualDim(Kind) = ClaimedDim(Kind)
    /\ Written(t) = 1..ResidualDim(Kind)

C4_Witness ==
  \E t, u \in Threads :
    /\ Returned(t) /\ pc[u] = "entered"
    /\ Kind = "SE3ReprojectionFactor"
    /\ Written(t) = {1, 2} /\ Written(u) = {}

\* the depth of the world point in the camera frame
Depth(f, p) ==
  SE3Transform(SE3Inverse(p[1]), f.meas[2])[3]

Degenerate(t) ==
  \/ Kind = "RangeFactor" /\ SE3T(Given(t)[1]) = SE3T(Given(t)[2])
  \/ Kind = "SE3ReprojectionFactor" /\ ~Lt(N(0), Depth(factor, Given(t)))

\* C5: every call returns true, on degenerate inputs too, and the
\* degenerate value is passed on in the residual: coinciding translations
\* give the range residual information * range, depth 0 gives a residual
\* that is not finite.
C5_AlwaysTrue ==
  \A t \in Threads : Returned(t) =>
    /\ ret[t] = "true"
    /\ (Kind = "RangeFactor" /\ Degenerate(t)) =>
         Res(t) = <<Mul(factor.info[1][1], factor.meas[1][1])>>
    /\ (Kind = "SE3ReprojectionFactor" /\ Depth(factor, Given(t)) = N(0)) =>
         \E i \in 1..2 : ~IsFinite(Res(t)[i])

C5_Witness ==
  \E t, u \in Threads :
    /\ t # u /\ Returned(t) /\ Returned(u)
    /\ Kind = "SE3ReprojectionFactor"
    /\ Degenerate(t) /\ ~Degenerate(u)
    /\ ret[t] = "true" /\ ret[u] = "true"
    /\ ~IsFinite(Res(t)[1])

\* the measurement, and what the parameter blocks predict for it
Measured(f) == f.meas[1]

Predicted(f, p) ==
  CASE f.kind = "SO3Factor" -> p[1]
    [] f.kind = "RelSE3Factor" -> SE3Otimes(SE3Inverse(p[1]), p[2])
    [] f.kind = "RangeFactor" -> <<VNorm(VSub(SE3T(p[2]), SE3T(p[1])))>>
    [] f.kind = "AltFactor" -> <<p[1][3]>>
    [] f.kind = "TimeSyncAttFactor" -> SO3Plus(f.meas[2], VScale(p[1][1], f.meas[3]))
    [] f.kind = "SO3OffsetFactor" -> SO3Otimes(f.meas[2], p[1])
    [] f.kind = "SE3OffsetFactor" -> SE3Otimes(f.meas[2], p[1])
    [] f.kind = "SE3ReprojectionFactor" -> Project(f, p)

\* the condition of C6 as stated: for the offset factors, the offset is the
\* identity
AtMeasurementAsStated(f, p) ==
  CASE f.kind = "SO3OffsetFactor" -> p[1] = SO3Identity
    [] f.kind = "SE3OffsetFactor" -> p[1] = XI
    [] OTHER -> Predicted(f, p) = Measured(f)

C7_MeasuredMinusEstimate ==
  \A t \in Threads : (Returned(t) /\ Kind = "SO3Factor") =>
    Res(t) = MatVec(factor.info, SO3Minus(factor.meas[1], Given(t)[1]))

\* C7 amended: the orientation factor's residual is
\* Q_inv * (estimate (-) measured), for every measurement and estimate.
C7_EstimateMinusMeasured ==
  \A t \in Threads : (Returned(t) /\ Kind = "SO3Factor") =>
    Res(t) = MatVec(factor.info, SO3Minus(Given(t)[1], factor.meas[1]))

C7_Witness ==
  \E t \in Threads :
    /\ Returned(t) /\ Kind = "SO3Factor"
    /\ factor.meas[1] = qI /\ factor.info = I3
    /\ Given(t) = <<qX>>
    /\ Res(t) = V3(1, 0, 0)

\* C8: the range residual is (1/v) * (r - |t_j - t_i|) for every variance
\* v # 0; from (0,0,0) to (3,4,0) it is 0 for r = 5 and 1/v for r = 6, and
\* for coinciding translations it is r/v.
C8_RangeResidual ==
  \A t \in Threads : (Returned(t) /\ Kind = "RangeFactor") =>
    \A v \in Variances \ {N(0)} : factor.info = <<<<Div(N(1), v)>>>> =>
      LET r  == factor.meas[1][1]
          ti == SE3T(Given(t)[1])
          tj == SE3T(Given(t)[2])
      IN  /\ Res(t) = <<Mul(Div(N(1), v), Sub(r, VNorm(VSub(tj, ti))))>>
          /\ (ti = V3(0, 0, 0) /\ tj = V3(3, 4, 0) /\ r = N(5)) => Res(t) = <<N(0)>>
          /\ (ti = V3(0, 0, 0) /\ tj = V3(3, 4, 0) /\ r = N(6)) => Res(t) = <<Div(N(1), v)>>
          /\ ti = tj => Res(t) = <<Div(r, v)>>

C8_Witness ==
  \E t, u \in Threads :
    /\ t # u /\ Returned(t) /\ Returned(u) /\ Kind = "RangeFactor"
    /\ factor.meas[1][1] = N(6) /\ factor.info = <<<<Half>>>>
    /\ SE3T(Given(t)[1]) = V3(3, 4, 0) /\ SE3T(Given(t)[2]) = V3(3, 4, 0)
    /\ Given(t) = Given(u)
    /\ Res(t) = <<N(3)>> /\ Res(u) = <<N(3)>>

\* the information a factor of this kind can have been built with
Information3 == {Inverse(Q) : Q \in Cov3}

Information6 == {Inverse(Q) : Q \in Cov6}

Information1 == {<<<<Div(N(1), v)>>>> : v \in Variances}

Informations(kind) ==
  CASE kind \in {"SO3Factor", "TimeSyncAttFactor", "SO3OffsetFactor"} -> Information3
    [] kind \in {"RelSE3Factor", "SE3OffsetFactor"} -> Information6
    [] kind \in {"RangeFactor", "AltFactor"} -> Information1
    [] OTHER -> {}

\* C9: a second factor with the same measurement and twice the information
\* gives, on the same parameter blocks and for a nonzero error, exactly
\* twice the residual, component by component.
C9_TwiceInformationTwiceResidual ==
  \A t \in Threads : (Returned(t) /\ tmp[t] # Zero(Len(tmp[t]))) =>
    \A J \in Informations(Kind) : J = MScale(N(2), factor.info) =>
      Residual([factor EXCEPT !.info = J], Given(t)) = VScale(N(2), Res(t))

C9_Witness ==
  \E t \in Threads :
    /\ Returned(t) /\ Kind = "RelSE3Factor"
    /\ factor.info = I6
    /\ MScale(N(2), I6) \in Informations(Kind)
    /\ Res(t) = <<N(0), N(0), N(1), N(0), N(0), N(1)>>

Stepped(t) == pc'[t] # pc[t]

\* C10: while the factor lives, its measurement and information stay as
\* construction left them; a step of a call changes neither the factor nor
\* any parameter block, and of the buffers only its own; and calls given
\* equal parameter values leave equal residuals.
C10_EvaluationFrame ==
  /\ [](\A t, u \in Threads :
          (Returned(t) /\ Returned(u) /\ Given(t) = Given(u)) => res[t] = res[u])
  /\ [][ /\ (factor # NoFactor /\ factor' # NoFactor) => factor' = factor
         /\ \A t \in Threads : Stepped(t) =>
              /\ factor' = factor
              /\ mem' = mem
              /\ \A u \in Threads \ {t} : res'[u] = res[u] ]_vars

C10_Witness ==
  \E t, u \in Threads :
    /\ t # u /\ Returned(t) /\ Returned(u)
    /\ Kind = "SO3Factor"
    /\ Given(t) = Given(u)
    /\ res[t] = res[u]
    /\ Res(t) # Zero(3)

====
